---- MODULE Spec2Model ----
(***************************************************************************)
(* Photobooth.py as a state machine.  The program is one sequential        *)
(* process: module start-up (GPIO, button check, camera), then main() with *)
(* its idle poll loop and the 3-shot session, then the outermost handler.  *)
(* pc is the position of that process; the other variables are its         *)
(* globals and locals, the hardware it drives (GPIO pins, camera           *)
(* compositor, annotation), the file system it writes, and history         *)
(* variables that only record what happened.                               *)
(***************************************************************************)
EXTENDS Integers, Sequences, FiniteSets, TLC

(* ---------------- bounds of the model ---------------- *)
MaxSessions == 2
MaxMounts == 3
MainMounts == 1
MaxW == 66
MaxH == 34

(* ---------------- program constants ---------------- *)
blink_speed == 10
NoOverlay == -1
PyFalse == 0
total_pics == 3
CountdownFrom == 3
AlignW == 32
AlignH == 16
screen_width == 1024
screen_height == 600
AlphaHigh == 255
AlphaLow == 0
GetReadyDuration == 2
PhotoLayer == 3 + total_pics
script_dir == "/home/pi/Photobooth"
basedir == "/media/pi/"
CameraResolution == <<1920, 1120>>

VARIABLES
    pc,
    \* main()'s locals
    i, forIt, frame, intro_image_1, intro_image_2, filepath, filename,
    \* take_photo's locals
    tp_filename, counter,
    \* playback's locals
    prev_overlay, this_overlay, photo_number,
    \* overlay_image's parameters and locals, its return address and value
    ovName, ovDuration, ovLayer, o, ovRet, retval, img, pad,
    \* hardware
    gpio, led, preview, overlays, nextId, annotate_text,
    \* environment
    button, cameraOK, fs, fallbackExists, assetDims, files, clock,
    \* history
    sessions, polls, lastBlink, trace, liveAtPress, badRemove,
    enumOrder, fsAtCall, logged,
    \* the idle tick counter of the variant of the program in which the shot
    \* loop has a counter of its own
    tick

mainLocals == <<i, forIt, frame, intro_image_1, intro_image_2, filepath, filename>>
tpLocals == <<tp_filename, counter>>
pbLocals == <<prev_overlay, this_overlay, photo_number>>
ovLocals == <<ovName, ovDuration, ovLayer, o, ovRet, retval, img, pad>>
pins == <<gpio, led>>
cam == <<preview, overlays, nextId, annotate_text>>
env == <<button, cameraOK, fs, fallbackExists, assetDims, files, clock>>
pathHist == <<enumOrder, fsAtCall>>
hist == <<sessions, polls, lastBlink, trace, liveAtPress, badRemove, logged>>

vars == <<pc, mainLocals, tpLocals, pbLocals, ovLocals, pins, cam, env, pathHist, hist, tick>>

(* ---------------- strings ---------------- *)
Digits == <<"0", "1", "2", "3", "4", "5", "6", "7", "8", "9">>

\* str(n) for a natural number
RECURSIVE Str(_)
Str(n) == IF n < 10 THEN Digits[n + 1] ELSE Str(n \div 10) \o Digits[(n % 10) + 1]

\* s.replace(old, new) for a one-character old; t is the value of s, taken once
RECURSIVE Replace(_, _, _)
Replace(s, old, new) ==
    CHOOSE r \in
        {IF Len(t) = 0 THEN ""
         ELSE (IF SubSeq(t, 1, 1) = old THEN new ELSE SubSeq(t, 1, 1))
              \o Replace(SubSeq(t, 2, Len(t)), old, new) : t \in {s}} : TRUE

\* index of the first c in s at or after k, 0 when there is none
RECURSIVE Find(_, _, _)
Find(s, c, k) ==
    IF k > Len(s) THEN 0
    ELSE IF SubSeq(s, k, k) = c THEN k ELSE Find(s, c, k + 1)

\* s.split(c)[0]
SplitFirst(s, c) == IF Find(s, c, 1) = 0 THEN s ELSE SubSeq(s, 1, Find(s, c, 1) - 1)

\* os.path.join(a, b): an absolute b discards a
PathJoin(a, b) ==
    IF Len(b) > 0 /\ SubSeq(b, 1, 1) = "/" THEN b
    ELSE IF Len(a) = 0 \/ SubSeq(a, Len(a), Len(a)) = "/" THEN a \o b
    ELSE a \o "/" \o b

\* str(datetime.datetime.now()) at the k-th reading of the clock: sessions are
\* at least 27 s of sleeps apart, so successive readings differ in the seconds;
\* the microsecond part is printed only when it is not zero
NowStr(k) ==
    "2024-01-01 12:0" \o Str(k) \o ":00" \o (IF k % 2 = 1 THEN ".250000" ELSE "")

\* set_filename's result for a given str(now)
StemOf(now) == Replace(Replace(SplitFirst(now, "."), " ", "_"), ":", "-")

\* mutant: the shot index is written zero-based
PhotoName_ZeroBased(path, prefix, n) == path \o prefix \o "_" \o Str(n - 1) \o "of3.jpg"

\* take_photo's file name
PhotoName(path, prefix, n) == path \o prefix \o "_" \o Str(n) \o "of3.jpg"

\* playback's file name
PlaybackName(path, prefix, n, total) ==
    path \o prefix \o "_" \o Str(n) \o "of" \o Str(total) \o ".jpg"

(* ---------------- overlays ---------------- *)
\* mutant: the width is always rounded to the next multiple, aligned or not
PadW_AlwaysUp(w) == ((w \div 32) + 1) * 32

\* the padded buffer of overlay_image
PadW(w) == ((w + 31) \div 32) * 32
PadH(h) == ((h + 15) \div 16) * 16

\* mutant: the test of line 145 never holds
Truthy_Never(v) == FALSE

Truthy(v) == v # 0

IsAsset(name) == Len(name) >= 7 /\ SubSeq(name, 1, 7) = "Assets/"

\* Image.open succeeds on the bundled assets and on photos that were written
Readable(name) == IsAsset(name) \/ PathJoin(script_dir, name) \in files

\* size of the image in a file: photos have the camera's resolution
ImageSize(name) == IF IsAsset(name) THEN assetDims ELSE CameraResolution

Live == DOMAIN overlays

Ev(op, id, arg) == [op |-> op, id |-> id, arg |-> arg]

\* camera.add_overlay(pad.tobytes(), size=img.size) followed by o.layer = layer
AddOverlay(id, name, size, padded, layer) ==
    [h \in Live \cup {id} |->
        IF h = id
        THEN [name |-> name, size |-> size, pad |-> padded, layer |-> layer,
              alpha |-> AlphaHigh]
        ELSE overlays[h]]

Range(s) == {s[k] : k \in DOMAIN s}

\* mutant: the sentinel is not tested for
RemoveRequests_NoSentinelCheck(h) == <<h>>

\* remove_overlay(overlay): the handles it passes on to camera.remove_overlay
RemoveRequests(h) == IF h # NoOverlay THEN <<h>> ELSE <<>>

\* the compositor after camera.remove_overlay on each request
CameraRemove(reqs) == [k \in Live \ Range(reqs) |-> overlays[k]]

\* what the requests add to the history
RemoveEvents(reqs) ==
    [k \in DOMAIN reqs |->
        Ev("rm", reqs[k], IF reqs[k] \in Live THEN overlays[reqs[k]].name ELSE "?")]

\* a request for something that is not a live overlay
RemoveIsBad(reqs) == \E k \in DOMAIN reqs : reqs[k] \notin Live

\* overlay_image's return value
OverlayImageResult(duration, handle) == IF duration > 0 THEN NoOverlay ELSE handle

(* ---------------- storage ---------------- *)
MountNames == {"USB" \o Str(k) : k \in 1..MaxMounts}
MainMountNames == {"USB" \o Str(k) : k \in 1..MainMounts}
MountStatus == {"absent", "exists", "creatable", "fails"}
Present(f) == {m \in MountNames : f[m] # "absent"}

Perms(S) == {s \in [1..Cardinality(S) -> S] : \A a, b \in 1..Cardinality(S) : s[a] = s[b] => a = b}

MountPath(d) == PathJoin(basedir, d) \o "/photobooth/"
FallbackPath == script_dir \o "/photobooth/"

\* the body of set_default_path's loop for one entry d, photo_path in and out
LoopStep(f, d) ==
    IF f[d] = "exists" THEN MountPath(d)
    ELSE IF f[d] = "creatable" THEN MountPath(d)
    ELSE ""

\* photo_path after the loop over the entries order[k..]
RECURSIVE LoopFrom(_, _, _, _)
LoopFrom(f, order, k, photo_path) ==
    IF k > Len(order) THEN photo_path
    ELSE LoopFrom(f, order, k + 1, LoopStep(f, order[k]))

\* set_default_path's return value
SetDefaultPath(f, order) ==
    IF LoopFrom(f, order, 1, "") = "" THEN FallbackPath ELSE LoopFrom(f, order, 1, "")

\* the file system after set_default_path: os.makedirs ran on every entry
\* whose photobooth/ did not exist
FsAfter(f) == [m \in MountNames |-> IF f[m] = "creatable" THEN "exists" ELSE f[m]]

\* the directory of a path exists
DirExists(f, fb, path) ==
    \/ path = FallbackPath /\ fb
    \/ \E m \in MountNames : path = MountPath(m) /\ f[m] = "exists"

(* ---------------- program positions ---------------- *)
StartupPCs == {"gpio_setup", "check_button", "init_camera", "enter_main"}
HandlerPCs == {"finally", "exited"}
IdlePCs == {"idle"}
SessionPCs ==
    {"s_rm1", "s_rm2", "s_path", "s_name", "s_frame", "s_for", "ps_call", "ps_ret",
     "tp_start", "tp_count", "tp_capture", "s_inc", "pb_proc", "pb_proc_ret",
     "pb_for", "pb_show_ret", "pb_bound", "pb_sleep", "pb_done", "pb_done_ret",
     "s_intro1_ret", "s_intro2_ret"}
OverlayPCs == {"ov_add", "ov_branch"}
MainPCs ==
    {"m_intro1", "m_intro1_ret", "m_intro2_ret"} \cup IdlePCs \cup SessionPCs \cup OverlayPCs

(* ---------------- initial state ---------------- *)
\* the locals are unbound until first assigned; they start at a value of their
\* type that the program never reads
InitLocals ==
    /\ i = 0 /\ forIt = 0 /\ frame = 0
    /\ intro_image_1 = NoOverlay /\ intro_image_2 = NoOverlay
    /\ filepath = "" /\ filename = ""
    /\ tp_filename = "" /\ counter = 0
    /\ prev_overlay = PyFalse /\ this_overlay = NoOverlay /\ photo_number = 0
    /\ ovName = "" /\ ovDuration = 0 /\ ovLayer = 0 /\ o = NoOverlay
    /\ ovRet = "" /\ retval = NoOverlay /\ img = <<0, 0>> /\ pad = <<0, 0>>

InitHistory ==
    /\ sessions = 0 /\ polls = 0 /\ lastBlink = "none" /\ trace = <<>>
    /\ liveAtPress = {} /\ badRemove = FALSE
    /\ enumOrder = <<>> /\ fsAtCall = [m \in MountNames |-> "absent"]
    /\ logged = {}
    /\ tick = 0

Init ==
    /\ pc = "gpio_setup"
    /\ InitLocals
    /\ gpio = "unset" /\ led = 0 /\ preview = "off"
    /\ overlays = <<>> /\ nextId = 1 /\ annotate_text = ""
    /\ button \in {"LOW", "HIGH"}
    /\ cameraOK \in BOOLEAN
    /\ fs \in {f \in [MountNames -> MountStatus] :
                  \A m \in MountNames \ MainMountNames : f[m] = "absent"}
    /\ fallbackExists \in BOOLEAN
    /\ assetDims = <<screen_width, screen_height>>
    /\ files = {} /\ clock = 0
    /\ InitHistory

(* ---------------- module start-up, lines 31-54 ---------------- *)
\* GPIO.setmode, GPIO.setup of the button and of the light (initial LOW)
GpioSetup ==
    /\ pc = "gpio_setup"
    /\ gpio' = "configured" /\ led' = 0
    /\ pc' = "check_button"
    /\ UNCHANGED <<mainLocals, tpLocals, pbLocals, ovLocals, cam, env, pathHist, tick, hist>>

\* mutant: the message is logged but SystemExit is not raised
ButtonPressedAtStartup_NoExit ==
    /\ pc = "check_button" /\ button = "LOW"
    /\ logged' = logged \cup {"Exiting - the button was pressed during startup"}
    /\ pc' = "init_camera"
    /\ UNCHANGED <<mainLocals, tpLocals, pbLocals, ovLocals, pins, cam, env, pathHist, tick,
                   sessions, polls, lastBlink, trace, liveAtPress, badRemove>>

\* the button reads LOW: log and raise SystemExit
ButtonPressedAtStartup ==
    /\ pc = "check_button" /\ button = "LOW"
    /\ logged' = logged \cup {"Exiting - the button was pressed during startup"}
    /\ pc' = "exited"
    /\ UNCHANGED <<mainLocals, tpLocals, pbLocals, ovLocals, pins, cam, env, pathHist, tick,
                   sessions, polls, lastBlink, trace, liveAtPress, badRemove>>

ButtonReleasedAtStartup ==
    /\ pc = "check_button" /\ button # "LOW"
    /\ pc' = "init_camera"
    /\ UNCHANGED <<mainLocals, tpLocals, pbLocals, ovLocals, pins, cam, env, pathHist, tick, hist>>

\* PiCamera() raises: log and raise SystemExit
CameraInitFails ==
    /\ pc = "init_camera" /\ ~cameraOK
    /\ logged' = logged \cup {"Error initializing the camera"}
    /\ pc' = "exited"
    /\ UNCHANGED <<mainLocals, tpLocals, pbLocals, ovLocals, pins, cam, env, pathHist, tick,
                   sessions, polls, lastBlink, trace, liveAtPress, badRemove>>

CameraInit ==
    /\ pc = "init_camera" /\ cameraOK
    /\ pc' = "enter_main"
    /\ UNCHANGED <<mainLocals, tpLocals, pbLocals, ovLocals, pins, cam, env, pathHist, tick, hist>>

(* ---------------- overlay_image, lines 56-82 ---------------- *)
\* a call of overlay_image(name, duration, layer) that returns to ret
CallOverlay(name, duration, layer, ret) ==
    /\ ovName' = name /\ ovDuration' = duration /\ ovLayer' = layer /\ ovRet' = ret
    /\ pc' = "ov_add"
    /\ UNCHANGED <<o, retval, img, pad>>

\* lines 59-76: open, pad, add the overlay, set its layer
OvAdd ==
    /\ pc = "ov_add"
    /\ Readable(ovName)
    /\ img' = ImageSize(ovName)
    /\ pad' = <<PadW(img'[1]), PadH(img'[2])>>
    /\ o' = nextId
    /\ nextId' = nextId + 1
    /\ overlays' = AddOverlay(nextId, ovName, img', pad', ovLayer)
    /\ trace' = Append(trace, Ev("add", nextId, ovName))
    /\ pc' = "ov_branch"
    /\ UNCHANGED <<mainLocals, tpLocals, pbLocals, ovName, ovDuration, ovLayer, ovRet, retval,
                   pins, preview, annotate_text, env, pathHist, tick,
                   sessions, polls, lastBlink, liveAtPress, badRemove, logged>>

\* a call of remove_overlay(h), lines 84-88
DoRemove(h) ==
    /\ overlays' = CameraRemove(RemoveRequests(h))
    /\ trace' = trace \o RemoveEvents(RemoveRequests(h))
    /\ badRemove' = (badRemove \/ RemoveIsBad(RemoveRequests(h)))

\* lines 77-80: duration > 0: sleep, remove the overlay, return the sentinel
OvTimed ==
    /\ pc = "ov_branch" /\ ovDuration > 0
    /\ DoRemove(o)
    /\ retval' = OverlayImageResult(ovDuration, o)
    /\ pc' = ovRet
    /\ UNCHANGED <<mainLocals, tpLocals, pbLocals, ovName, ovDuration, ovLayer, o, ovRet, img, pad,
                   pins, preview, nextId, annotate_text, env, pathHist, tick,
                   sessions, polls, lastBlink, liveAtPress, logged>>

\* lines 81-82: return the live overlay
OvLive ==
    /\ pc = "ov_branch" /\ ~(ovDuration > 0)
    /\ retval' = OverlayImageResult(ovDuration, o)
    /\ pc' = ovRet
    /\ UNCHANGED <<mainLocals, tpLocals, pbLocals, ovName, ovDuration, ovLayer, o, ovRet, img, pad,
                   pins, cam, env, pathHist, tick, hist>>

(* ---------------- main, lines 153-163 ---------------- *)
\* lines 202-204 and 155-159: enter the try, start the preview, call for intro_1
EnterMain ==
    /\ pc = "enter_main"
    /\ preview' = "on"
    /\ CallOverlay("Assets/intro_1.png", 0, 3, "m_intro1_ret")
    /\ UNCHANGED <<mainLocals, tpLocals, pbLocals, pins, overlays, nextId, annotate_text,
                   env, pathHist, tick, hist>>

\* lines 159-160 and 199-200: bind intro_image_1, call for intro_2
ShowIntro2 ==
    /\ pc \in {"m_intro1_ret", "s_intro1_ret"}
    /\ intro_image_1' = retval
    /\ CallOverlay("Assets/intro_2.png", 0, 4,
                   IF pc = "m_intro1_ret" THEN "m_intro2_ret" ELSE "s_intro2_ret")
    /\ UNCHANGED <<i, forIt, frame, intro_image_2, filepath, filename,
                   tpLocals, pbLocals, pins, cam, env, pathHist, tick, hist>>

\* lines 160-163: bind intro_image_2, i = 0, enter the loop
StartLoop ==
    /\ pc = "m_intro2_ret"
    /\ intro_image_2' = retval
    /\ i' = 0
    /\ polls' = 0 /\ lastBlink' = "none"
    /\ pc' = "idle"
    /\ UNCHANGED <<forIt, frame, intro_image_1, filepath, filename,
                   tpLocals, pbLocals, ovLocals, pins, cam, env, pathHist, tick,
                   sessions, trace, liveAtPress, badRemove, logged>>

(* ---------------- the idle loop, lines 164-179 ---------------- *)
SetAlpha(h, a) ==
    [k \in Live |-> IF k = h THEN [overlays[k] EXCEPT !.alpha = a] ELSE overlays[k]]

\* i after one timed-out poll
TickNext(n) == IF n + 1 = 2 * blink_speed THEN 0 ELSE n + 1

\* what a timed-out poll that brings the counter to n does to the blink
TickBlink(n) ==
    IF n = blink_speed THEN "high"
    ELSE IF n = 2 * blink_speed THEN "low"
    ELSE "none"

\* wait_for_edge timed out (None): count, blink, sleep, continue
PollTimeoutStep ==
    /\ pc = "idle"
    /\ i' = TickNext(i)
    /\ lastBlink' = TickBlink(i + 1)
    /\ overlays' = IF TickBlink(i + 1) = "high" THEN SetAlpha(intro_image_2, AlphaHigh)
                   ELSE IF TickBlink(i + 1) = "low" THEN SetAlpha(intro_image_2, AlphaLow)
                   ELSE overlays
    /\ led' = IF TickBlink(i + 1) = "high" THEN 1
              ELSE IF TickBlink(i + 1) = "low" THEN 0
              ELSE led
    /\ polls' = IF polls = 2 * blink_speed THEN 1 ELSE polls + 1
    /\ pc' = "idle"
    /\ UNCHANGED <<forIt, frame, intro_image_1, intro_image_2, filepath, filename,
                   tpLocals, pbLocals, ovLocals, gpio, preview, nextId, annotate_text,
                   env, pathHist, sessions, trace, liveAtPress, badRemove, logged>>

\* the timed-out poll of the program
PollTimeout == PollTimeoutStep /\ UNCHANGED tick

\* the timed-out poll with the variant counting next to it: its counter is
\* advanced as line 169-176 advance i, and nothing else assigns it
PollTimeoutBoth == PollTimeoutStep /\ tick' = TickNext(tick)

\* wait_for_edge saw the falling edge: lines 180-181
PollEdge ==
    /\ pc = "idle"
    /\ sessions < MaxSessions
    /\ sessions' = sessions + 1
    /\ trace' = <<>>
    /\ liveAtPress' = Live
    /\ lastBlink' = "none"
    /\ pc' = "s_rm1"
    /\ UNCHANGED <<mainLocals, tpLocals, pbLocals, ovLocals, pins, cam, env, pathHist, tick,
                   polls, badRemove, logged>>

(* ---------------- the session, lines 180-200 ---------------- *)
\* line 183: remove_overlay(intro_image_1)
RemoveIntro1 ==
    /\ pc = "s_rm1"
    /\ DoRemove(intro_image_1)
    /\ pc' = "s_rm2"
    /\ UNCHANGED <<mainLocals, tpLocals, pbLocals, ovLocals, pins, preview, nextId, annotate_text,
                   env, pathHist, tick, sessions, polls, lastBlink, liveAtPress, logged>>

\* mutant: the second attract overlay is not removed
RemoveIntro2_Skipped ==
    /\ pc = "s_rm2"
    /\ pc' = "s_path"
    /\ UNCHANGED <<mainLocals, tpLocals, pbLocals, ovLocals, pins, cam, env, pathHist, tick, hist>>

\* line 184: remove_overlay(intro_image_2)
RemoveIntro2 ==
    /\ pc = "s_rm2"
    /\ DoRemove(intro_image_2)
    /\ pc' = "s_path"
    /\ UNCHANGED <<mainLocals, tpLocals, pbLocals, ovLocals, pins, preview, nextId, annotate_text,
                   env, pathHist, tick, sessions, polls, lastBlink, liveAtPress, logged>>

\* line 186: filepath = set_default_path(); os.listdir enumerates the mount
\* points in an order the program does not control
ResolvePath ==
    /\ pc = "s_path"
    /\ \E order \in Perms(Present(fs)) :
          /\ filepath' = SetDefaultPath(fs, order)
          /\ enumOrder' = order
    /\ fsAtCall' = fs
    /\ fs' = FsAfter(fs)
    /\ trace' = Append(trace, Ev("path", 0, filepath'))
    /\ pc' = "s_name"
    /\ UNCHANGED <<i, forIt, frame, intro_image_1, intro_image_2, filename,
                   tpLocals, pbLocals, ovLocals, pins, cam,
                   button, cameraOK, fallbackExists, assetDims, files, clock,
                   sessions, polls, lastBlink, liveAtPress, badRemove, logged, tick>>

\* line 188: filename = set_filename()
SetFilename ==
    /\ pc = "s_name"
    /\ clock' = clock + 1
    /\ filename' = StemOf(NowStr(clock'))
    /\ trace' = Append(trace, Ev("stem", 0, filename'))
    /\ pc' = "s_frame"
    /\ UNCHANGED <<i, forIt, frame, intro_image_1, intro_image_2, filepath,
                   tpLocals, pbLocals, ovLocals, pins, cam,
                   button, cameraOK, fs, fallbackExists, assetDims, files, pathHist, tick,
                   sessions, polls, lastBlink, liveAtPress, badRemove, logged>>

\* lines 190-192: frame = 1, a fresh range(3) iterator
InitFrame ==
    /\ pc = "s_frame"
    /\ frame' = 1
    /\ forIt' = 0
    /\ pc' = "s_for"
    /\ UNCHANGED <<i, intro_image_1, intro_image_2, filepath, filename,
                   tpLocals, pbLocals, ovLocals, pins, cam, env, pathHist, tick, hist>>

\* lines 192-193 and 120: the iterator yields the next i; photo_screen(frame)
\* calls overlay_image with a duration of 2
ForBody ==
    /\ pc = "s_for" /\ forIt < 3
    /\ i' = forIt
    /\ forIt' = forIt + 1
    /\ CallOverlay("Assets/get_ready_" \o Str(frame) \o ".png", GetReadyDuration, 3, "ps_ret")
    /\ UNCHANGED <<frame, intro_image_1, intro_image_2, filepath, filename,
                   tpLocals, pbLocals, pins, cam, env, pathHist, tick, hist>>

\* lines 120-121: get_ready_image is the returned value; remove_overlay of it
PhotoScreenRemove ==
    /\ pc = "ps_ret"
    /\ DoRemove(retval)
    /\ pc' = "tp_start"
    /\ UNCHANGED <<mainLocals, tpLocals, pbLocals, ovLocals, pins, preview, nextId, annotate_text,
                   env, pathHist, tick, sessions, polls, lastBlink, liveAtPress, logged>>

(* ---------------- take_photo, lines 123-133 ---------------- *)
\* lines 195 and 125-127: the file name, a fresh range(3, 0, -1) iterator;
\* counter holds the value the iterator yields next
TakePhotoStart ==
    /\ pc = "tp_start"
    /\ tp_filename' = PhotoName(filepath, filename, frame)
    /\ counter' = CountdownFrom
    /\ pc' = "tp_count"
    /\ UNCHANGED <<mainLocals, pbLocals, ovLocals, pins, cam, env, pathHist, tick, hist>>

\* lines 127-129: one tick of the countdown
Countdown ==
    /\ pc = "tp_count" /\ counter > 0
    /\ annotate_text' = "             ..." \o Str(counter)
    /\ counter' = counter - 1
    /\ trace' = Append(trace, Ev("annotate", counter, annotate_text'))
    /\ pc' = "tp_count"
    /\ UNCHANGED <<mainLocals, tp_filename, pbLocals, ovLocals, pins, preview, overlays, nextId,
                   env, pathHist, tick, sessions, polls, lastBlink, liveAtPress, badRemove, logged>>

\* mutant: the annotation is not cleared before the exposure
ClearAnnotation_Forgets ==
    /\ pc = "tp_count" /\ ~(counter > 0)
    /\ pc' = "tp_capture"
    /\ UNCHANGED <<mainLocals, tpLocals, pbLocals, ovLocals, pins, cam, env, pathHist, tick, hist>>

\* line 131: clear the annotation
ClearAnnotation ==
    /\ pc = "tp_count" /\ ~(counter > 0)
    /\ annotate_text' = ""
    /\ trace' = Append(trace, Ev("annotate", 0, ""))
    /\ pc' = "tp_capture"
    /\ UNCHANGED <<mainLocals, tpLocals, pbLocals, ovLocals, pins, preview, overlays, nextId,
                   env, pathHist, tick, sessions, polls, lastBlink, liveAtPress, badRemove, logged>>

\* lines 132-133: camera.capture(filename) writes the file
Capture ==
    /\ pc = "tp_capture"
    /\ DirExists(fs, fallbackExists, filepath)
    /\ files' = files \cup {tp_filename}
    /\ trace' = Append(trace, Ev("capture", frame, tp_filename))
    /\ pc' = "s_inc"
    /\ UNCHANGED <<mainLocals, tpLocals, pbLocals, ovLocals, pins, cam,
                   button, cameraOK, fs, fallbackExists, assetDims, clock, pathHist, tick,
                   sessions, polls, lastBlink, liveAtPress, badRemove, logged>>

\* lines 207-208: an exception raised inside main() reaches the handler,
\* which logs it
ExceptException ==
    /\ logged' = logged \cup {"Unexpected error"}
    /\ pc' = "finally"
    /\ UNCHANGED <<mainLocals, tpLocals, pbLocals, ovLocals, pins, cam, env, pathHist, tick,
                   sessions, polls, lastBlink, trace, liveAtPress, badRemove>>

\* lines 205-206: the handler of the operator's interrupt
ExceptKeyboardInterrupt ==
    /\ logged' = logged \cup {"keyboard interrupt"}
    /\ pc' = "finally"
    /\ UNCHANGED <<mainLocals, tpLocals, pbLocals, ovLocals, pins, cam, env, pathHist, tick,
                   sessions, polls, lastBlink, trace, liveAtPress, badRemove>>

\* line 132: camera.capture cannot open a file in a directory that does not
\* exist and raises
CaptureFails ==
    /\ pc = "tp_capture"
    /\ ~DirExists(fs, fallbackExists, filepath)
    /\ ExceptException

\* mutant: the frame number is not advanced
IncFrame_Forgets ==
    /\ pc = "s_inc"
    /\ pc' = "s_for"
    /\ UNCHANGED <<mainLocals, tpLocals, pbLocals, ovLocals, pins, cam, env, pathHist, tick, hist>>

\* line 196: frame += 1
IncFrame ==
    /\ pc = "s_inc"
    /\ frame' = frame + 1
    /\ pc' = "s_for"
    /\ UNCHANGED <<i, forIt, intro_image_1, intro_image_2, filepath, filename,
                   tpLocals, pbLocals, ovLocals, pins, cam, env, pathHist, tick, hist>>

(* ---------------- playback, lines 135-151 ---------------- *)
\* mutant: the loop is left only once the iterator is past its end
ForExit_OffByOne ==
    /\ pc = "s_for" /\ forIt > 3
    /\ trace' = Append(trace, Ev("playback", total_pics, "begin"))
    /\ CallOverlay("Assets/processing.png", 2, 3, "pb_proc_ret")
    /\ UNCHANGED <<mainLocals, tpLocals, pbLocals, pins, cam, env, pathHist, tick,
                   sessions, polls, lastBlink, liveAtPress, badRemove, logged>>

\* lines 192, 197 and 138: the iterator is exhausted; playback(3, ...) shows
\* the processing overlay for 2 s
ForExit ==
    /\ pc = "s_for" /\ ~(forIt < 3)
    /\ trace' = Append(trace, Ev("playback", total_pics, "begin"))
    /\ CallOverlay("Assets/processing.png", 2, 3, "pb_proc_ret")
    /\ UNCHANGED <<mainLocals, tpLocals, pbLocals, pins, cam, env, pathHist, tick,
                   sessions, polls, lastBlink, liveAtPress, badRemove, logged>>

\* lines 140-141: prev_overlay = False, a fresh range(1, total_pics + 1)
\* iterator; photo_number holds the value the iterator yielded last
PlaybackInit ==
    /\ pc = "pb_proc_ret"
    /\ prev_overlay' = PyFalse
    /\ photo_number' = 0
    /\ pc' = "pb_for"
    /\ UNCHANGED <<mainLocals, tpLocals, this_overlay, ovLocals, pins, cam, env, pathHist, tick, hist>>

\* lines 141-143: the next photo_number, its file name, overlay_image of it
PlaybackShow ==
    /\ pc = "pb_for" /\ photo_number < total_pics
    /\ photo_number' = photo_number + 1
    /\ CallOverlay(PlaybackName(filepath, filename, photo_number', total_pics), 0,
                   PhotoLayer, "pb_show_ret")
    /\ UNCHANGED <<mainLocals, tpLocals, prev_overlay, this_overlay, pins, cam, env, pathHist, tick, hist>>

\* line 143: bind this_overlay to the returned handle
PlaybackBind ==
    /\ pc = "pb_show_ret"
    /\ this_overlay' = retval
    /\ pc' = "pb_bound"
    /\ UNCHANGED <<mainLocals, tpLocals, prev_overlay, photo_number, ovLocals,
                   pins, cam, env, pathHist, tick, hist>>

\* mutant: the previous overlay is removed whatever prev_overlay holds
PlaybackRemovePrev_Unguarded ==
    /\ pc = "pb_bound"
    /\ DoRemove(prev_overlay)
    /\ pc' = "pb_sleep"
    /\ UNCHANGED <<mainLocals, tpLocals, pbLocals, ovLocals,
                   pins, preview, nextId, annotate_text, env, pathHist, tick,
                   sessions, polls, lastBlink, liveAtPress, logged>>

\* lines 145-146: remove the previous overlay if there is one
PlaybackRemovePrev ==
    /\ pc = "pb_bound"
    /\ IF Truthy(prev_overlay)
       THEN DoRemove(prev_overlay)
       ELSE UNCHANGED <<overlays, trace, badRemove>>
    /\ pc' = "pb_sleep"
    /\ UNCHANGED <<mainLocals, tpLocals, pbLocals, ovLocals,
                   pins, preview, nextId, annotate_text, env, pathHist, tick,
                   sessions, polls, lastBlink, liveAtPress, logged>>

\* mutant: prev_overlay is not advanced to the overlay just shown
PlaybackHold_KeepsPrev ==
    /\ pc = "pb_sleep"
    /\ pc' = "pb_for"
    /\ UNCHANGED <<mainLocals, tpLocals, pbLocals, ovLocals, pins, cam, env, pathHist, tick, hist>>

\* lines 147-148: sleep(2); prev_overlay = this_overlay
PlaybackHold ==
    /\ pc = "pb_sleep"
    /\ prev_overlay' = this_overlay
    /\ pc' = "pb_for"
    /\ UNCHANGED <<mainLocals, tpLocals, this_overlay, photo_number, ovLocals,
                   pins, cam, env, pathHist, tick, hist>>

\* mutant: the last photo overlay is not removed
PlaybackRemoveLast_Skipped ==
    /\ pc = "pb_for" /\ ~(photo_number < total_pics)
    /\ pc' = "pb_done"
    /\ UNCHANGED <<mainLocals, tpLocals, pbLocals, ovLocals, pins, cam, env, pathHist, tick, hist>>

\* line 149: after the loop, remove_overlay(prev_overlay)
PlaybackRemoveLast ==
    /\ pc = "pb_for" /\ ~(photo_number < total_pics)
    /\ DoRemove(prev_overlay)
    /\ pc' = "pb_done"
    /\ UNCHANGED <<mainLocals, tpLocals, pbLocals, ovLocals, pins, preview, nextId, annotate_text,
                   env, pathHist, tick, sessions, polls, lastBlink, liveAtPress, logged>>

\* line 151: the done overlay for 2 s
PlaybackDone ==
    /\ pc = "pb_done"
    /\ CallOverlay("Assets/all_done.png", 2, 4, "pb_done_ret")
    /\ UNCHANGED <<mainLocals, tpLocals, pbLocals, pins, cam, env, pathHist, tick, hist>>

\* lines 197-199: playback returns; call for intro_1 again
ShowIntro1Again ==
    /\ pc = "pb_done_ret"
    /\ trace' = Append(trace, Ev("playback", total_pics, "end"))
    /\ CallOverlay("Assets/intro_1.png", 0, 3, "s_intro1_ret")
    /\ UNCHANGED <<mainLocals, tpLocals, pbLocals, pins, cam, env, pathHist, tick,
                   sessions, polls, lastBlink, liveAtPress, badRemove, logged>>

\* line 200 and back to line 164: bind intro_image_2, poll again
BackToIdle ==
    /\ pc = "s_intro2_ret"
    /\ intro_image_2' = retval
    /\ polls' = 0 /\ lastBlink' = "none"
    /\ pc' = "idle"
    /\ UNCHANGED <<i, forIt, frame, intro_image_1, filepath, filename,
                   tpLocals, pbLocals, ovLocals, pins, cam, env, pathHist, tick,
                   sessions, trace, liveAtPress, badRemove, logged>>

(* ---------------- the outermost handler, lines 202-213 ---------------- *)
\* any exception raised inside main(): an unreadable asset, a failed capture,
\* anything unexpected
Fault ==
    /\ pc \in MainPCs
    /\ ExceptException

\* the operator's interrupt arrives while main() runs
Interrupt ==
    /\ pc \in MainPCs
    /\ ExceptKeyboardInterrupt

\* mutant: the finally clause exits without GPIO.cleanup
Finally_NoCleanup ==
    /\ pc = "finally"
    /\ logged' = logged \cup {"End of session"}
    /\ preview' = "stopped"
    /\ pc' = "exited"
    /\ UNCHANGED <<mainLocals, tpLocals, pbLocals, ovLocals, pins, overlays, nextId, annotate_text,
                   env, pathHist, tick, sessions, polls, lastBlink, trace, liveAtPress, badRemove>>

\* lines 209-213: log, stop the preview, GPIO.cleanup, sys.exit
Finally ==
    /\ pc = "finally"
    /\ logged' = logged \cup {"End of session"}
    /\ preview' = "stopped"
    /\ gpio' = "cleaned"
    /\ pc' = "exited"
    /\ UNCHANGED <<mainLocals, tpLocals, pbLocals, ovLocals, led, overlays, nextId, annotate_text,
                   env, pathHist, tick, sessions, polls, lastBlink, trace, liveAtPress, badRemove>>

(* ---------------- specifications ---------------- *)
Startup ==
    \/ GpioSetup \/ ButtonPressedAtStartup \/ ButtonReleasedAtStartup
    \/ CameraInitFails \/ CameraInit \/ EnterMain

OverlayImage == OvAdd \/ OvTimed \/ OvLive

Idle == ShowIntro2 \/ StartLoop \/ PollTimeout \/ PollEdge

Session ==
    \/ RemoveIntro1 \/ RemoveIntro2 \/ ResolvePath \/ SetFilename \/ InitFrame
    \/ ForBody \/ PhotoScreenRemove \/ TakePhotoStart \/ Countdown \/ ClearAnnotation
    \/ Capture \/ CaptureFails \/ IncFrame \/ ForExit

Playback ==
    \/ PlaybackInit \/ PlaybackShow \/ PlaybackBind \/ PlaybackRemovePrev \/ PlaybackHold
    \/ PlaybackRemoveLast \/ PlaybackDone \/ ShowIntro1Again \/ BackToIdle

Handler == Fault \/ Interrupt \/ Finally

Next == Startup \/ OverlayImage \/ Idle \/ Session \/ Playback \/ Handler

Spec == Init /\ [][Next]_vars

\* the program when nothing raises from outside and the operator does not
\* interrupt it
NextNoFault == Startup \/ OverlayImage \/ Idle \/ Session \/ Playback \/ Finally

\* the steps the program takes by itself: it is one thread and every call it
\* blocks in (sleep, capture, wait_for_edge with its timeout) returns; only
\* the button edge is up to the visitor
ProgramStep ==
    \/ Startup \/ OverlayImage \/ ShowIntro2 \/ StartLoop \/ PollTimeout
    \/ Session \/ Playback \/ Finally

SpecNoFault == Init /\ [][NextNoFault]_vars /\ WF_vars(ProgramStep)

\* the program and the two-counter variant side by side, on the same poll
\* outcomes, when nothing raises from outside
NextBoth ==
    \/ Startup \/ OverlayImage \/ ShowIntro2 \/ StartLoop \/ PollTimeoutBoth \/ PollEdge
    \/ Session \/ Playback \/ Finally

SpecBoth == Init /\ [][NextBoth]_vars

TypeOK ==
    /\ pc \in StartupPCs \cup MainPCs \cup HandlerPCs
    /\ i \in 0..(2 * blink_speed - 1)
    /\ tick \in 0..(2 * blink_speed - 1)
    /\ led \in {0, 1}
    /\ sessions \in 0..MaxSessions

(* ---------------- set_default_path on its own ---------------- *)
\* the program at line 186 of its first session (button pressed at the first
\* poll), in front of every combination of up to MaxMounts mount points
InitPath ==
    /\ pc = "s_path"
    /\ i = 0 /\ forIt = 0 /\ frame = 0
    /\ intro_image_1 = 1 /\ intro_image_2 = 2
    /\ filepath = "" /\ filename = ""
    /\ tp_filename = "" /\ counter = 0
    /\ prev_overlay = PyFalse /\ this_overlay = NoOverlay /\ photo_number = 0
    /\ ovName = "Assets/intro_2.png" /\ ovDuration = 0 /\ ovLayer = 4 /\ o = 2
    /\ ovRet = "m_intro2_ret" /\ retval = 2
    /\ img = <<screen_width, screen_height>>
    /\ pad = <<PadW(screen_width), PadH(screen_height)>>
    /\ gpio = "configured" /\ led = 0 /\ preview = "on"
    /\ overlays = <<>> /\ nextId = 3 /\ annotate_text = ""
    /\ button = "HIGH" /\ cameraOK = TRUE
    /\ fs \in [MountNames -> MountStatus]
    /\ fallbackExists \in BOOLEAN
    /\ assetDims = <<screen_width, screen_height>>
    /\ files = {} /\ clock = 0
    /\ sessions = 1 /\ polls = 0 /\ lastBlink = "none"
    /\ trace = <<Ev("rm", 1, "Assets/intro_1.png"), Ev("rm", 2, "Assets/intro_2.png")>>
    /\ liveAtPress = {1, 2} /\ badRemove = FALSE
    /\ enumOrder = <<>> /\ fsAtCall = [m \in MountNames |-> "absent"]
    /\ logged = {}
    /\ tick = 0

NextPath == ResolvePath

SpecPath == InitPath /\ [][NextPath]_vars

(* ---------------- overlay_image on its own ---------------- *)
\* the program at its first call of overlay_image (line 159), in front of an
\* asset of every size up to MaxW x MaxH
InitPad ==
    /\ pc = "ov_add"
    /\ InitLocals!1 /\ InitLocals!2 /\ InitLocals!3 /\ InitLocals!4 /\ InitLocals!5
    /\ ovName = "Assets/intro_1.png" /\ ovDuration = 0 /\ ovLayer = 3 /\ o = NoOverlay
    /\ ovRet = "m_intro1_ret" /\ retval = NoOverlay /\ img = <<0, 0>> /\ pad = <<0, 0>>
    /\ gpio = "configured" /\ led = 0 /\ preview = "on"
    /\ overlays = <<>> /\ nextId = 1 /\ annotate_text = ""
    /\ button = "HIGH" /\ cameraOK = TRUE
    /\ fs = [m \in MountNames |-> "absent"]
    /\ fallbackExists = TRUE
    /\ assetDims \in (1..MaxW) \X (1..MaxH)
    /\ files = {} /\ clock = 0
    /\ InitHistory

NextPad == OvAdd \/ OvLive

SpecPad == InitPad /\ [][NextPad]_vars

(* ---------------- what the history shows ---------------- *)
AttractNames == {"Assets/intro_1.png", "Assets/intro_2.png"}

IsCapture(e) == e.op = "capture"
IsPhotoAdd(e) == e.op = "add" /\ ~IsAsset(e.arg)
IsPathEvent(e) == e.op = "path"
IsStemEvent(e) == e.op = "stem"

Captures == SelectSeq(trace, IsCapture)
PhotoAdds == SelectSeq(trace, IsPhotoAdd)
PathEvents == SelectSeq(trace, IsPathEvent)
StemEvents == SelectSeq(trace, IsStemEvent)

AddedIds == {e.id : e \in {x \in Range(trace) : x.op = "add"}}
RemovedIds == {e.id : e \in {x \in Range(trace) : x.op = "rm"}}

LiveAttract == {h \in Live : overlays[h].name \in AttractNames}

SessionCompleted == pc = "idle" /\ sessions >= 1

IsPrefix(s, t) == Len(s) <= Len(t) /\ \A k \in 1..Len(s) : s[k] = t[k]

(* ---------------- C1 ---------------- *)
\* C1: when the program is idle again after a session that ran without a
\* fault, exactly 3 photo files were written in that session, with indices
\* 1, 2, 3; every overlay created during the session and the two attract
\* overlays live at the press have been released; the only live overlays are
\* the two freshly created attract overlays.
C1_SessionLeavesThreePhotosAndTwoOverlays ==
    SessionCompleted =>
        /\ Len(Captures) = 3
        /\ \A k \in 1..3 : Captures[k].id = k /\ Captures[k].arg \in files
        /\ Cardinality({Captures[k].arg : k \in 1..3}) = 3
        /\ \A h \in (AddedIds \cup liveAtPress) \ {intro_image_1, intro_image_2} :
              h \in RemovedIds /\ h \notin Live
        /\ Cardinality(liveAtPress) = 2
        /\ Live = {intro_image_1, intro_image_2}
        /\ intro_image_1 # intro_image_2
        /\ {intro_image_1, intro_image_2} \subseteq AddedIds \ (liveAtPress \cup RemovedIds)
        /\ overlays[intro_image_1].name = "Assets/intro_1.png"
        /\ overlays[intro_image_2].name = "Assets/intro_2.png"

C1_Witness == SessionCompleted /\ Len(Captures) = 3 /\ Cardinality(Live) = 2

(* ---------------- C2, C3 ---------------- *)
\* the loop body succeeds at mount d: photobooth/ exists there or is created
Succeeds(f, d) == f[d] \in {"exists", "creatable"}

AnySuccess(f, order) == \E k \in DOMAIN order : Succeeds(f, order[k])

FirstSuccess(f, order) ==
    CHOOSE k \in DOMAIN order :
        Succeeds(f, order[k]) /\ \A j \in 1..(k - 1) : ~Succeeds(f, order[j])

\* C2: for every enumeration order and every combination of per-mount
\* outcomes, set_default_path returns the photobooth/ path of the first mount
\* point in enumeration order at which the directory exists or was created.
C2_FirstSucceedingMountIsReturned ==
    (pc = "s_name" /\ AnySuccess(fsAtCall, enumOrder)) =>
        filepath = MountPath(enumOrder[FirstSuccess(fsAtCall, enumOrder)])

\* C3: set_default_path returns the fallback path when there is no mount
\* point or creation fails on every one, never an empty path, and it returns
\* the fallback only when no mount point succeeded.
C3_FallbackIffNoMountSucceeds ==
    pc = "s_name" =>
        /\ filepath # ""
        /\ (filepath = FallbackPath) <=> ~AnySuccess(fsAtCall, enumOrder)

(* ---------------- C4 ---------------- *)
\* C4: when the trigger input reads LOW at process start, the process exits
\* without entering the main loop: no overlay is ever created, the preview is
\* never started and no photo is captured.
C4_PressedAtStartupNeverEntersMain ==
    button = "LOW" =>
        /\ pc \in {"gpio_setup", "check_button", "exited"}
        /\ nextId = 1 /\ Live = {} /\ trace = <<>>
        /\ preview = "off"
        /\ files = {} /\ sessions = 0

C4_Witness == button = "LOW" /\ pc = "exited"

(* ---------------- C5 ---------------- *)
\* C5: in every idle period, counting the timed-out polls from the moment the
\* program enters idle, the second attract overlay's opacity is set high and
\* the light turned on at the 10th poll, the opacity set low and the light
\* turned off at the 20th, and at no other poll, with period 20.
C5_BlinkAtTenthAndTwentiethPoll ==
    pc = "idle" =>
        /\ polls = blink_speed =>
              /\ lastBlink = "high" /\ led = 1
              /\ overlays[intro_image_2].alpha = AlphaHigh
        /\ polls = 2 * blink_speed =>
              /\ lastBlink = "low" /\ led = 0
              /\ overlays[intro_image_2].alpha = AlphaLow
        /\ polls \notin {blink_speed, 2 * blink_speed} => lastBlink = "none"

(* ---------------- C6 ---------------- *)
\* C6: within one session the path and the stem are resolved once, the k-th
\* capture is written to <path><stem>_<k>of3.jpg, and the k-th photo overlay
\* of playback shows exactly the file the k-th capture wrote.
C6_CaptureAndPlaybackNamesAgree ==
    sessions >= 1 =>
        /\ Len(PathEvents) <= 1 /\ Len(StemEvents) <= 1
        /\ Len(Captures) <= 3 /\ Len(PhotoAdds) <= Len(Captures)
        /\ Len(Captures) >= 1 => Len(PathEvents) = 1 /\ Len(StemEvents) = 1
        /\ \A k \in 1..Len(Captures) :
              Captures[k].arg =
                  PathEvents[1].arg \o StemEvents[1].arg \o "_" \o Digits[k + 1] \o "of3.jpg"
        /\ \A k \in 1..Len(PhotoAdds) :
              PathJoin(script_dir, PhotoAdds[k].arg) = Captures[k].arg

C6_Witness == Len(Captures) = 3 /\ Len(PhotoAdds) = 3 /\ sessions = 2

(* ---------------- C7 ---------------- *)
OneFaultMessage ==
    ("keyboard interrupt" \in logged) # ("Unexpected error" \in logged)

C7_State ==
    /\ pc = "finally" =>
          OneFaultMessage /\ preview = "on" /\ gpio = "configured"
    /\ (pc = "exited" /\ preview # "off") =>
          /\ OneFaultMessage /\ "End of session" \in logged
          /\ preview = "stopped" /\ gpio = "cleaned"

C7_Step ==
    /\ (pc \in MainPCs /\ pc' \notin MainPCs) =>
          /\ pc' = "finally"
          /\ logged' \in {logged \cup {"keyboard interrupt"}, logged \cup {"Unexpected error"}}
          /\ logged' # logged
    /\ pc \in HandlerPCs =>
          /\ pc' \in HandlerPCs
          /\ files' = files /\ overlays' = overlays /\ nextId' = nextId
          /\ trace' = trace /\ sessions' = sessions /\ annotate_text' = annotate_text

SmallestMultipleAtLeast(n, a) == CHOOSE m \in n..(n + a - 1) : m % a = 0

\* C8: for every image width w and height h, the padded buffer is as wide as
\* the smallest multiple of 32 that is >= w and as high as the smallest
\* multiple of 16 that is >= h, and the overlay is submitted with size (w, h).
C8_PaddingRoundsUpToAlignment ==
    pc # "ov_add" =>
        /\ img = assetDims
        /\ pad = <<SmallestMultipleAtLeast(img[1], AlignW),
                   SmallestMultipleAtLeast(img[2], AlignH)>>
        /\ (img[1] % AlignW = 0 => pad[1] = img[1])
        /\ (img[2] % AlignH = 0 => pad[2] = img[2])
        /\ overlays[o].size = assetDims
        /\ overlays[o].pad = pad

C8_Witness ==
    /\ pc = "ov_branch"
    /\ img[1] % AlignW = 0 /\ img[2] % AlignH # 0
    /\ overlays[o].pad[2] > img[2]

(* ---------------- C9 ---------------- *)
C9_Step ==
    /\ (pc = "ps_ret" /\ retval = NoOverlay /\ pc' = "tp_start") =>
          overlays' = overlays /\ trace' = trace /\ badRemove' = badRemove
    /\ (pc = "ov_add" /\ pc' = "ov_branch") =>
          o' \notin Live /\ DOMAIN overlays' = Live \cup {o'}
    /\ (pc = "ov_branch" /\ pc' = ovRet) =>
          IF ovDuration > 0
          THEN retval' = NoOverlay /\ DOMAIN overlays' = Live \ {o} /\ o \in Live
          ELSE retval' = o /\ overlays' = overlays /\ o \in Live

\* C9: remove_overlay of the sentinel issues no removal and changes no overlay
\* state; overlay_image with duration > 0 has released its overlay when it
\* returns and returns the sentinel; with duration 0 it returns the live
\* handle and leaves exactly one more overlay live.
C9_SentinelAndTimedOverlays == [][C9_Step]_vars

C9_Witness ==
    pc = "tp_start" /\ retval = NoOverlay /\ Live = {} /\ ~badRemove /\ nextId > 3

(* ---------------- C10 ---------------- *)
IsMajor(e) ==
    \/ e.op \in {"path", "stem", "capture", "playback"}
    \/ e.op \in {"add", "rm"} /\ e.arg \in AttractNames

MajorTag(e) ==
    IF e.op \in {"path", "stem"} THEN e.op
    ELSE IF e.op = "capture" THEN "capture:" \o Str(e.id)
    ELSE e.op \o ":" \o e.arg

MajorSteps == [k \in DOMAIN SelectSeq(trace, IsMajor) |-> MajorTag(SelectSeq(trace, IsMajor)[k])]

SessionOrder ==
    <<"rm:Assets/intro_1.png", "rm:Assets/intro_2.png", "path", "stem",
      "capture:1", "capture:2", "capture:3", "playback:begin", "playback:end",
      "add:Assets/intro_1.png", "add:Assets/intro_2.png">>

\* C10: after a button edge the steps happen in this order, each once: both
\* attract overlays released, path resolved, stem generated, captures 1, 2, 3,
\* playback, both attract overlays re-created, then polling again; no capture
\* happens while an attract overlay is live.
C10_SessionStepsInOrder ==
    sessions >= 1 =>
        /\ IsPrefix(MajorSteps, SessionOrder)
        /\ pc = "idle" => MajorSteps = SessionOrder
        /\ pc \in {"ps_ret", "tp_start", "tp_count", "tp_capture", "s_inc"} => LiveAttract = {}

C10_Witness == sessions = 2 /\ pc = "idle" /\ polls = 1 /\ MajorSteps = SessionOrder

(* ---------------- C11 ---------------- *)
GetReadyName(n) == "Assets/get_ready_" \o Digits[n + 1] \o ".png"

\* positions in the history of the events of one kind before position p
AddsBefore(p) == {q \in 1..(p - 1) : trace[q].op = "add"}
RemovalsBefore(p) == {q \in 1..(p - 1) : trace[q].op = "rm"}
CapturesUpTo(p) == {q \in 1..p : trace[q].op = "capture"}

Last(S) == CHOOSE q \in S : \A r \in S : r <= q

\* C11: within a session the exposures carry the indices 1, 2, 3 in this
\* order, one exposure per index and never more than 3; the last overlay
\* created before the exposure of index n is "get ready n", it was released
\* before the exposure, and no overlay is live at the moment of an exposure.
C11_ShotsInOrderAfterGetReady ==
    sessions >= 1 =>
        /\ Len(Captures) <= 3
        /\ \A p \in DOMAIN trace :
              trace[p].op = "capture" =>
                  /\ trace[p].id = Cardinality(CapturesUpTo(p))
                  /\ AddsBefore(p) # {} /\ RemovalsBefore(p) # {}
                  /\ trace[Last(AddsBefore(p))].arg = GetReadyName(trace[p].id)
                  /\ Last(RemovalsBefore(p)) > Last(AddsBefore(p))
                  /\ trace[Last(RemovalsBefore(p))].id = trace[Last(AddsBefore(p))].id
                  /\ \A q \in CapturesUpTo(p) \ {p} : q < Last(AddsBefore(p))
        /\ pc \in {"tp_capture", "s_inc"} => Live = {}

C11_Witness == pc = "s_inc" /\ frame = 3 /\ Len(Captures) = 3 /\ sessions = 2

(* ---------------- C12 ---------------- *)
CountdownText(n) == "             ..." \o Digits[n + 1]

IsAnnotation(e, n, text) == e.op = "annotate" /\ e.id = n /\ e.arg = text

\* C12: every exposure is directly preceded by the annotation being set to
\* the countdown values 3, 2, 1 in this order and then cleared, so that each
\* countdown is followed by exactly one exposure; the annotation is empty at
\* the exposure and whenever no countdown is in progress.
C12_CountdownThenClearThenExposure ==
    /\ \A p \in DOMAIN trace :
          trace[p].op = "capture" =>
              /\ p >= 5
              /\ IsAnnotation(trace[p - 4], 3, CountdownText(3))
              /\ IsAnnotation(trace[p - 3], 2, CountdownText(2))
              /\ IsAnnotation(trace[p - 2], 1, CountdownText(1))
              /\ IsAnnotation(trace[p - 1], 0, "")
    /\ \A p \in DOMAIN trace :
          (trace[p].op = "annotate" /\ trace[p].id = 0 /\ p < Len(trace)) =>
              trace[p + 1].op = "capture"
    /\ pc \in {"tp_capture", "s_inc"} => annotate_text = ""
    /\ annotate_text # "" =>
          /\ Len(trace) >= 1
          /\ trace[Len(trace)].op = "annotate"
          /\ trace[Len(trace)].arg = annotate_text

C12_Witness ==
    /\ pc = "s_inc" /\ annotate_text = "" /\ Len(trace) >= 5
    /\ trace[Len(trace)].op = "capture"
    /\ trace[Len(trace) - 4].arg = CountdownText(3)

(* ---------------- C13 ---------------- *)
PlaybackAssets == {"Assets/processing.png", "Assets/all_done.png"}

IsPlaybackStep(e) ==
    e.op \in {"add", "rm"} /\ (e.arg \in PlaybackAssets \/ ~IsAsset(e.arg))

\* an overlay of a photo is named after the shot that wrote its file
PhotoTag(name) ==
    IF \E k \in DOMAIN Captures : Captures[k].arg = name
    THEN "photo" \o Str(CHOOSE k \in DOMAIN Captures : Captures[k].arg = name)
    ELSE "photo?"

PlaybackTag(e) == e.op \o ":" \o (IF IsAsset(e.arg) THEN e.arg ELSE PhotoTag(e.arg))

PlaybackSteps ==
    [k \in DOMAIN SelectSeq(trace, IsPlaybackStep) |->
        PlaybackTag(SelectSeq(trace, IsPlaybackStep)[k])]

PlaybackOrder ==
    <<"add:Assets/processing.png", "rm:Assets/processing.png",
      "add:photo1", "add:photo2", "rm:photo1", "add:photo3", "rm:photo2", "rm:photo3",
      "add:Assets/all_done.png", "rm:Assets/all_done.png">>

LivePhotos == {h \in Live : ~IsAsset(overlays[h].name)}

\* C13: in playback the overlay of photo k-1 is released only after the
\* overlay of photo k was created (k = 2, 3); from the creation of the first
\* photo overlay until the release of the third, one or two photo overlays
\* are live; the third is released before the done overlay is created and
\* the processing overlay is released before the first photo overlay is
\* created.
C13_PlaybackOverlaysOverlap ==
    sessions >= 1 =>
        /\ IsPrefix(PlaybackSteps, PlaybackOrder)
        /\ pc = "idle" => PlaybackSteps = PlaybackOrder
        /\ Len(PlaybackSteps) \in 3..7 => Cardinality(LivePhotos) \in 1..2
        /\ Len(PlaybackSteps) \notin 3..7 => LivePhotos = {}

C13_Witness ==
    /\ pc = "pb_bound" /\ photo_number = 3 /\ Cardinality(LivePhotos) = 2
    /\ Len(PlaybackSteps) = 6 /\ sessions = 2

(* ---------------- C14 ---------------- *)
\* where main() or playback() is: inside overlay_image, the place it returns to
Where == IF pc \in OverlayPCs THEN ovRet ELSE pc

\* after both attract overlays were released and before they are re-created
InsideSessionPCs ==
    {"s_path", "s_name", "s_frame", "s_for", "ps_call", "ps_ret", "tp_start", "tp_count",
     "tp_capture", "s_inc", "pb_proc", "pb_proc_ret", "pb_for", "pb_show_ret", "pb_bound",
     "pb_sleep", "pb_done", "pb_done_ret"}

\* the places where a call of overlay_image with duration 0 has returned and
\* its result is not yet bound
ReturnSites == {"m_intro1_ret", "m_intro2_ret", "pb_show_ret", "s_intro1_ret", "s_intro2_ret"}

\* get-ready, processing and done overlays
LiveTimed == {h \in Live : IsAsset(overlays[h].name) /\ overlays[h].name \notin AttractNames}

C14_LiveOverlays ==
    /\ Cardinality(Live) <= 2
    /\ \A n \in AttractNames : Cardinality({h \in Live : overlays[h].name = n}) <= 1
    /\ pc = "idle" =>
          /\ Live = {intro_image_1, intro_image_2}
          /\ Cardinality(LiveAttract) = 2
    /\ Where \in InsideSessionPCs =>
          /\ LiveAttract = {}
          /\ \/ Cardinality(LiveTimed) <= 1 /\ LivePhotos = {}
             \/ LiveTimed = {} /\ Cardinality(LivePhotos) <= 2

\* a variable whose value old is the handle of a live overlay gets another value
Overwritten(old, new) == old \in Live /\ new # old

C14_NoOverwrite ==
    /\ ~Overwritten(intro_image_1, intro_image_1')
    /\ ~Overwritten(intro_image_2, intro_image_2')
    /\ ~Overwritten(prev_overlay, prev_overlay')
    /\ ~Overwritten(this_overlay, this_overlay')

\* C14 as stated: at most two overlays live, when polling exactly the attract
\* pair, inside a session no attract overlay and at most one timed overlay or
\* at most two photo overlays; no variable that holds the handle of a live
\* overlay is overwritten.
C14_NoLiveHandleOverwritten == [](C14_LiveOverlays) /\ [][C14_NoOverwrite]_vars

C14_OverwriteKeepsHandle ==
    /\ ~Overwritten(intro_image_1, intro_image_1')
    /\ ~Overwritten(intro_image_2, intro_image_2')
    /\ ~Overwritten(prev_overlay, prev_overlay')
    /\ Overwritten(this_overlay, this_overlay') =>
          /\ pc = "pb_show_ret"
          /\ prev_overlay = this_overlay /\ prev_overlay' = prev_overlay

C14_NoLiveHandleLost ==
    pc \in MainPCs =>
        \A h \in Live :
            \/ h \in {intro_image_1, intro_image_2, prev_overlay, this_overlay}
            \/ pc = "ov_branch" /\ h = o
            \/ pc \in ReturnSites /\ h = retval

\* C14 (amended): the same bounds on the live overlays; the only variable
\* overwritten while it holds the handle of a live overlay is playback's
\* this_overlay, at a moment when prev_overlay holds the same handle, so every
\* live overlay stays referenced by a variable until it is released.
C14_LiveOverlaysBoundedAndHeld ==
    [](C14_LiveOverlays /\ C14_NoLiveHandleLost) /\ [][C14_OverwriteKeepsHandle]_vars

C14_Witness ==
    /\ pc = "pb_bound" /\ photo_number = 2 /\ Cardinality(Live) = 2
    /\ prev_overlay \in Live /\ this_overlay \in Live /\ this_overlay # prev_overlay

(* ---------------- C15 ---------------- *)
RemovalPositions == {p \in DOMAIN trace : trace[p].op = "rm"}

\* C15: the compositor is never asked to remove a handle twice, and never
\* asked to remove something that is not the handle of a live overlay:
\* neither the sentinel -1 nor playback's initial False.
C15_RemovalsAreOfLiveHandlesOnce ==
    /\ ~badRemove
    /\ \A p \in RemovalPositions :
          /\ trace[p].id \notin {NoOverlay, PyFalse}
          /\ trace[p].id \in 1..(nextId - 1)
          /\ trace[p].id \notin Live
          /\ \A q \in RemovalPositions : q # p => trace[q].id # trace[p].id

C15_Witness ==
    /\ sessions = 2 /\ pc = "idle" /\ ~badRemove
    /\ Cardinality(RemovalPositions) = 10 /\ Cardinality(RemovedIds) = 10

(* ---------------- C16 ---------------- *)
\* a session starts only from the poll, and polling is resumed only after the
\* attract overlays were shown at startup or after a whole session
C16_Step ==
    /\ sessions' # sessions =>
          pc = "idle" /\ pc' = "s_rm1" /\ sessions' = sessions + 1
    /\ (trace' = <<>> /\ trace # <<>>) => pc = "idle"
    /\ (pc # "idle" /\ pc' = "idle") =>
          \/ pc = "m_intro2_ret" /\ sessions = 0
          \/ pc = "s_intro2_ret" /\ MajorSteps = SessionOrder /\ Len(Captures) = 3

SessionDone ==
    /\ pc = "idle" /\ MajorSteps = SessionOrder
    /\ Len(Captures) = 3 /\ PlaybackSteps = PlaybackOrder

SessionFaulted == pc \in HandlerPCs /\ "Unexpected error" \in logged

\* C16: when nothing raises from outside and the operator does not interrupt,
\* a session that has begun runs on to the end: three captures, the playback,
\* polling again (or it ends in a fault of its own, which is logged); a
\* session begins only from the poll, so none is abandoned, restarted or
\* nested midway.
C16_SessionRunsToCompletion ==
    /\ [][C16_Step]_vars
    /\ (pc = "s_rm1") ~> (SessionDone \/ SessionFaulted)

C16_Witness ==
    /\ sessions = 1 /\ pc = "idle" /\ polls = 0 /\ Len(Captures) = 3
    /\ PlaybackSteps = PlaybackOrder /\ logged = {}

(* ---------------- C17 ---------------- *)
\* a timed-out poll
IsPoll == pc = "idle" /\ pc' = "idle"

\* C17: on the same poll outcomes the program, whose shot loop assigns the
\* idle counter i, and the variant with a counter of its own for the shot loop
\* make the same changes of attract opacity and indicator light at every poll.
C17_SharedCounterIsNoBehaviourChange ==
    [][IsPoll => TickBlink(i + 1) = TickBlink(tick + 1)]_vars

(* ---------------- C18 ---------------- *)
\* the light is on exactly when the second attract overlay is opaque
LightMirrorsOpacity ==
    (led = 1) <=> (intro_image_2 \in Live /\ overlays[intro_image_2].alpha = AlphaHigh)

\* between the button edge and the return to the poll
InSession == Where \in SessionPCs

\* C18: in every state in which the program waits in the poll loop, from the
\* start and after every session, the light is on if and only if the second
\* attract overlay has alpha 255 (a new overlay has the compositor's default,
\* 255); the light is not changed while a session is in progress.
C18_LightMirrorsAttractOpacity ==
    /\ [](pc = "idle" => LightMirrorsOpacity)
    /\ [][InSession => led' = led]_vars

(* ---------------- C19 ---------------- *)
\* C19: the directory of the path set_default_path returned exists when it
\* returns, on removable media and for the fallback alike, so that no capture
\* fails for want of its directory.
C19_ReturnedDirectoryExists ==
    /\ pc = "s_name" => DirExists(fs, fallbackExists, filepath)
    /\ pc = "tp_capture" => DirExists(fs, fallbackExists, filepath)

(* ---------------- C20 ---------------- *)
\* C20: on every path on which the process exits, a GPIO configuration that
\* was set up has been cleaned up.
C20_ExitedImpliesGpioCleanedUp == pc = "exited" => gpio # "configured"

====
